---- MODULE Spec2Model ----
(***************************************************************************)
(* Model of the coinlila safety layer:                                     *)
(*   - guards.SafeExchange (internal/guards/safe_exchange.go): the gated,  *)
(*     retried PlaceMarket with rate limiter, circuit breaker and          *)
(*     duplicate suppression, called by concurrent goroutines;             *)
(*   - risk.State (internal/risk): error cooldown and the daily-loss       *)
(*     kill switch.                                                        *)
(* Time is a discrete clock.  One clock unit stands for 30 seconds, so     *)
(* time.Minute is OneMinute units.  A time.Time zero value is ZeroTime and *)
(* Time.Sub saturates at MaxDuration as Go's does.                         *)
(***************************************************************************)
EXTENDS Integers, Sequences, FiniteSets, TLC

\* ------------------------------------------------------------------ bounds
MaxConcCalls == 3
MaxSeqCalls == 3
MaxConcTime == 2
MaxSeqTime == 3
MaxLossPct == 30
MaxLookback == 2
MaxPushes == 4
MaxCrashes == 1
MaxLockCalls == 2
MaxLockTime == 1
FailUntil == 2
MaxCallTime == 2
CallsPerTick == 1
MaxDriverCalls == 3

\* ------------------------------------------------------- program constants
OneMinute == 2
OneDay == 2880
ZeroTime == -100
MaxDuration == 50

breakerClosed == "closed"
breakerHalfOpen == "half_open"
breakerOpen == "open"

\* The goroutines that call PlaceMarket.
Callers == {"c1", "c2"}

\* The holder of a sync.Mutex that nobody holds.
NoCaller == "none"

\* exchange.Side values and the order triples the callers submit.  Quantities
\* are in units of 1e-9 so that two of them differ only beyond the 8 decimals
\* ordKey formats.
Triples ==
  { <<"BTC-USD", "BUY", 10>>, <<"BTC-USD", "BUY", 14>>, <<"BTC-USD", "SELL", 10>> }

NoTriple == <<"", "", 0>>

VARIABLES
  clock,          \* wall clock (time.Now())
  cfg,            \* constructor arguments as normalised by NewSafeExchange / NewState
  rateMu,         \* s.rateMu: the caller that holds it, or NoCaller
  orderTimes,     \* s.orderTimes
  lastOrderKey,   \* s.lastOrderKey
  lastOrderAt,    \* s.lastOrderAt
  bMu,            \* s.bMu: the caller that holds it, or NoCaller
  bState,         \* s.bState
  failStreak,     \* s.failStreak
  openedAt,       \* s.openedAt
  halfProbes,     \* s.halfProbes
  LastErrorTime,  \* riskS.LastErrorTime
  EquityAtOpenUSD,\* riskS.EquityAtOpenUSD (whole dollars, held exactly by a float64)
  EquityNowUSD,   \* riskS.EquityNowUSD
  OrdersToday,    \* riskS.OrdersToday
  RealizedPnLUSD, \* riskS.RealizedPnLUSD (whole dollars)
  DayOpen,        \* riskS.DayOpen
  prices,         \* riskS.prices
  VolLookback,    \* lim.VolLookback
  dm,             \* the DayManager (its TZ; Path is the one snapshot path)
  primary,        \* the file at dm.Path
  bak,            \* the file at dm.Path + ".bak"
  tmp,            \* the temporary file of the save in progress
  leftover,       \* temporary files left in the directory by earlier saves
  save,           \* position and locals of the SaveSnapshot call in progress
  op,             \* position and locals of the main goroutine's DayManager call
  metric,         \* the four prometheus counters
  pc,             \* per caller: position inside PlaceMarket
  now,            \* per caller: local now
  req,            \* per caller: (symbol, side, qty)
  i,              \* per caller: retry loop index
  err,            \* per caller: local err
  wake,           \* per caller: end of the current time.Sleep
  ret,            \* per caller: the error value returned ("nil" for success)
  ncalls,         \* per caller: calls of inner.PlaceMarket made by this call
  gates,          \* per caller: gates evaluated by this call, in order
  outcome,        \* per caller: "none", "denied", "placed" or "failed"
  hist            \* history of the run (observations only, never read by the code)

svars == <<rateMu, orderTimes, lastOrderKey, lastOrderAt, bMu, bState, failStreak, openedAt,
           halfProbes, LastErrorTime, metric>>
lvars == <<pc, now, req, i, err, wake, ret, ncalls, gates, outcome>>
rvars == <<EquityAtOpenUSD, EquityNowUSD, OrdersToday, RealizedPnLUSD, DayOpen, prices,
           VolLookback>>
fvars == <<dm, primary, bak, tmp, leftover, save, op>>
vars == <<clock, cfg, rvars, fvars, svars, lvars, hist>>

\* ----------------------------------------------------------------- time
\* time.Time.Sub: the difference, saturated to the largest Duration.
Sub(a, b) == IF a - b > MaxDuration THEN MaxDuration ELSE a - b

\* ------------------------------------------------------------ constructor
\* NewSafeExchange: threshold < 1 becomes 3, half-open probes < 1 becomes 1.
\* The last argument is NewState's cooldownSec, kept with the rest.
NewSafeExchange(cap, retries, boff, dupWin, brThresh, brCooldown, brProbes, errCd) ==
  [ perMinuteCap  |-> cap,
    maxRetries    |-> retries,
    backoff       |-> boff,
    dupWindow     |-> dupWin,
    threshold     |-> IF brThresh < 1 THEN 3 ELSE brThresh,
    cooldown      |-> brCooldown,
    halfMax       |-> IF brProbes < 1 THEN 1 ELSE brProbes,
    ErrorCooldown |-> errCd ]

\* ------------------------------------------------------------- risk.State
\* State.CanAct(now): ignores its argument and measures time.Since.
CanAct(n) == Sub(clock, LastErrorTime) >= cfg.ErrorCooldown

\* ------------------------------------------------------------ SafeExchange
\* strconv.FormatFloat(qty, 'f', 8, 64) for a quantity of q * 1e-9 below 1e-7.
FormatFloat8(q) == "0.0000000" \o ToString((q + 5) \div 10)

\* ordKey: hex of the first 8 bytes of sha256(symbol + side + formatted qty).
\* The truncated hash is taken as collision free: the key is the hashed string.
ordKey(t) == t[1] \o t[2] \o FormatFloat8(t[3])

\* rateExceeded(now): prune to the trailing minute, then compare with the cap.
RECURSIVE KeepAfter(_, _)
KeepAfter(ts, oneMin) ==
  IF ts = <<>> THEN <<>>
  ELSE IF Head(ts) > oneMin THEN <<Head(ts)>> \o KeepAfter(Tail(ts), oneMin)
       ELSE KeepAfter(Tail(ts), oneMin)

\* rateExceeded comparing with > for >=.
rateExceededOffByOne(n) ==
  LET kept == KeepAfter(orderTimes, n - OneMinute)
  IN [ orderTimes |-> kept,
       exceeded   |-> cfg.perMinuteCap > 0 /\ Len(kept) > cfg.perMinuteCap ]

rateExceeded(n) ==
  LET kept == KeepAfter(orderTimes, n - OneMinute)
  IN [ orderTimes |-> kept,
       exceeded   |-> cfg.perMinuteCap > 0 /\ Len(kept) >= cfg.perMinuteCap ]

\* rateNote(t)
rateNote(t) == Append(orderTimes, t)

\* allowBreaker without the cooldown test of line 198.
allowBreakerNoCooldown(n) ==
  CASE bState = breakerClosed ->
         [allow |-> TRUE, bState |-> bState, halfProbes |-> halfProbes]
    [] bState = breakerOpen ->
         [allow |-> TRUE, bState |-> breakerHalfOpen, halfProbes |-> 0]
    [] bState = breakerHalfOpen ->
         [allow |-> halfProbes < cfg.halfMax, bState |-> bState, halfProbes |-> halfProbes]

\* allowBreaker(now)
allowBreaker(n) ==
  CASE bState = breakerClosed ->
         [allow |-> TRUE, bState |-> bState, halfProbes |-> halfProbes]
    [] bState = breakerOpen ->
         IF Sub(n, openedAt) >= cfg.cooldown
         THEN [allow |-> TRUE, bState |-> breakerHalfOpen, halfProbes |-> 0]
         ELSE [allow |-> FALSE, bState |-> bState, halfProbes |-> halfProbes]
    [] bState = breakerHalfOpen ->
         [allow |-> halfProbes < cfg.halfMax, bState |-> bState, halfProbes |-> halfProbes]

\* noteSuccess that forgets to reset the streak of a Closed breaker.
successBreakerKeepsStreak ==
  CASE bState = breakerClosed   -> [bState |-> bState, failStreak |-> failStreak]
    [] bState = breakerHalfOpen -> [bState |-> breakerClosed, failStreak |-> 0]
    [] bState = breakerOpen     -> [bState |-> bState, failStreak |-> failStreak]

\* noteSuccess, breaker part
successBreaker ==
  CASE bState = breakerClosed   -> [bState |-> bState, failStreak |-> 0]
    [] bState = breakerHalfOpen -> [bState |-> breakerClosed, failStreak |-> 0]
    [] bState = breakerOpen     -> [bState |-> bState, failStreak |-> failStreak]

\* noteFailure, breaker part
failureBreaker(n) ==
  CASE bState = breakerClosed ->
         IF failStreak + 1 >= cfg.threshold
         THEN [bState |-> breakerOpen, failStreak |-> failStreak + 1, openedAt |-> n]
         ELSE [bState |-> bState, failStreak |-> failStreak + 1, openedAt |-> openedAt]
    [] bState = breakerHalfOpen ->
         [bState |-> breakerOpen, failStreak |-> cfg.threshold, openedAt |-> n]
    [] bState = breakerOpen ->
         [bState |-> bState, failStreak |-> failStreak, openedAt |-> n]

\* ------------------------------------------------------------------ Init
\* The configurations explored: every field of NewSafeExchange's and
\* NewState's arguments drawn from a small set.
Configs(caps, retries, backoffs, dups, thresholds, cooldowns, probes, errcds) ==
  { NewSafeExchange(cap, r, b, d, th, cd, pr, ec) :
      cap \in caps, r \in retries, b \in backoffs, d \in dups,
      th \in thresholds, cd \in cooldowns, pr \in probes, ec \in errcds }

\* ----------------------------------------------------------------- files
\* A file is absent or holds bytes. Bytes are a sequence of tokens, so that a
\* write cut short leaves a proper prefix.
NoFile == [exists |-> FALSE, bytes |-> <<>>]
File(bytes) == [exists |-> TRUE, bytes |-> bytes]

\* time.Format(time.RFC3339) of an instant in UTC, and ParseDayOpenISO. The
\* empty string is <<>>.
FormatRFC3339(t) == <<"T", t>>
ParseDayOpenISO(str) ==
  IF str = <<>> THEN [ok |-> FALSE, t |-> ZeroTime]
  ELSE IF Len(str) = 2 /\ str[1] = "T" THEN [ok |-> TRUE, t |-> str[2]]
  ELSE [ok |-> FALSE, t |-> ZeroTime]

\* util.DaySnapshot, its zero value, json.MarshalIndent and json.Unmarshal.
\* An object without members unmarshals to the zero value; anything that is not
\* a complete object is an error.
DaySnapshot(iso, tz, equity, orders, pnl) ==
  [DayOpenISO |-> iso, Timezone |-> tz, EquityAtOpenUSD |-> equity,
   OrdersToday |-> orders, RealizedPnLUSD |-> pnl]

ZeroSnapshot == DaySnapshot(<<>>, "", 0, 0, 0)

Marshal(snap) ==
  <<"{", snap.DayOpenISO, snap.Timezone, snap.EquityAtOpenUSD, snap.OrdersToday,
    snap.RealizedPnLUSD, "}">>

Unmarshal(bytes) ==
  IF Len(bytes) = 2 /\ bytes[1] = "{" /\ bytes[2] = "}"
  THEN [ok |-> TRUE, snap |-> ZeroSnapshot]
  ELSE IF Len(bytes) = 7 /\ bytes[1] = "{" /\ bytes[7] = "}"
  THEN [ok |-> TRUE,
        snap |-> DaySnapshot(bytes[2], bytes[3], bytes[4], bytes[5], bytes[6])]
  ELSE [ok |-> FALSE, snap |-> ZeroSnapshot]

\* util.LoadSnapshot
LoadSnapshot(file) ==
  IF ~file.exists THEN [ok |-> FALSE, snap |-> ZeroSnapshot] ELSE Unmarshal(file.bytes)

\* time.LoadLocation: the offset of local time from UTC; an unknown name is
\* an error, on which TodayOpen falls back to UTC.
KnownZones == ("UTC" :> 0) @@ ("Asia/Tokyo" :> 1080)

\* util.TodayOpen: the instant of local midnight of now's local day.
TodayOpen(tz, t) ==
  LET off   == IF tz \in DOMAIN KnownZones THEN KnownZones[tz] ELSE 0
      local == t + off
  IN (local - (local % OneDay)) - off

\* util.SameTradingDay
SameTradingDay(tz, a, b) == TodayOpen(tz, a) = TodayOpen(tz, b)

\* util.SeedForToday
SeedForToday(tz, t, equityAtOpen) ==
  DaySnapshot(FormatRFC3339(TodayOpen(tz, t)), tz, equityAtOpen, 0, 0)

\* risk.NewDayManager
NewDayManager(tz) == [TZ |-> IF tz = "" THEN "UTC" ELSE tz]

\* No DaySnapshot call is in progress / no DayManager call is in progress.
NoSave == [pc |-> "idle", data |-> <<>>, ret |-> "none"]
NoOp == [name |-> "idle", now |-> 0, equityNow |-> 0, snap |-> ZeroSnapshot,
         loaded |-> NoFile, ret |-> "none", last |-> "none"]

\* A process that never touches the snapshot file.
NoDisk ==
  /\ dm = NewDayManager("")
  /\ primary = NoFile
  /\ bak = NoFile
  /\ tmp = NoFile
  /\ leftover = 0
  /\ save = NoSave
  /\ op = NoOp

\* No BreachDailyLoss call has been made on the present equity values.
NoBreach == [maxLossPct |-> -1, result |-> FALSE]

InitHist ==
  [ openMoment        |-> ZeroTime,  \* clock when the breaker last became Open
    probesPassed      |-> 0,         \* breaker-gate passes in this HalfOpen period
    failsSinceSuccess |-> 0,         \* terminal failures since the last success
    succ              |-> <<>>,      \* (triple, timestamp) of every placed order
    breach            |-> NoBreach,  \* last BreachDailyLoss call on the present equity
    pushed            |-> <<>>,      \* prices pushed since the last ResetDay, in order
    savedOver         |-> NoFile,    \* the primary file when the last save began
    tempsBefore       |-> 0,         \* temporary files left over when it began
    crashes           |-> 0 ]        \* crashes so far

InitState ==
  /\ clock = 0
  /\ rateMu = NoCaller
  /\ bMu = NoCaller
  /\ orderTimes = <<>>
  /\ lastOrderKey = ""
  /\ lastOrderAt = ZeroTime
  /\ bState = breakerClosed
  /\ failStreak = 0
  /\ openedAt = ZeroTime
  /\ halfProbes = 0
  /\ LastErrorTime = ZeroTime
  /\ metric = [attempted |-> 0, placed |-> 0, failed |-> 0, suppressed |-> 0]
  /\ pc = [c \in Callers |-> "idle"]
  /\ now = [c \in Callers |-> 0]
  /\ req = [c \in Callers |-> NoTriple]
  /\ i = [c \in Callers |-> 0]
  /\ err = [c \in Callers |-> "nil"]
  /\ wake = [c \in Callers |-> 0]
  /\ ret = [c \in Callers |-> "none"]
  /\ ncalls = [c \in Callers |-> 0]
  /\ gates = [c \in Callers |-> <<>>]
  /\ outcome = [c \in Callers |-> "none"]
  /\ hist = InitHist

\* risk.NewState: EquityAtOpenUSD and DayOpen are set (ErrorCooldown is held in
\* cfg), every other field keeps Go's zero value.
NewState(equityAtOpenUSD, dayOpen) ==
  /\ EquityAtOpenUSD = equityAtOpenUSD
  /\ EquityNowUSD = 0
  /\ OrdersToday = 0
  /\ RealizedPnLUSD = 0
  /\ DayOpen = dayOpen
  /\ prices = <<>>

\* --------------------------------------------------------------- actions
\* A gate denial: metricOrdersSuppressed.Inc() and return of the gate's error.
Deny(c, e) ==
  /\ metric' = [metric EXCEPT !.suppressed = @ + 1]
  /\ ret' = [ret EXCEPT ![c] = e]
  /\ outcome' = [outcome EXCEPT ![c] = "denied"]
  /\ pc' = [pc EXCEPT ![c] = "done"]

\* PlaceMarket, lines 110-111: now := time.Now(); metricOrdersAttempted.Inc()
Begin(c, t) ==
  /\ pc[c] = "idle"
  /\ now' = [now EXCEPT ![c] = clock]
  /\ req' = [req EXCEPT ![c] = t]
  /\ metric' = [metric EXCEPT !.attempted = @ + 1]
  /\ pc' = [pc EXCEPT ![c] = "cooldown"]
  /\ UNCHANGED <<clock, cfg, rvars, fvars, rateMu, bMu, orderTimes, lastOrderKey, lastOrderAt, bState, failStreak,
                 openedAt, halfProbes, LastErrorTime, i, err, wake, ret, ncalls, gates,
                 outcome, hist>>

\* PlaceMarket, lines 113-117: the error-cooldown gate
GateCooldown(c) ==
  /\ pc[c] = "cooldown"
  /\ gates' = [gates EXCEPT ![c] = Append(@, "cooldown")]
  /\ IF CanAct(now[c])
     THEN /\ pc' = [pc EXCEPT ![c] = "breaker"]
          /\ UNCHANGED <<metric, ret, outcome>>
     ELSE Deny(c, "cooldown active after error")
  /\ UNCHANGED <<clock, cfg, rvars, fvars, rateMu, bMu, orderTimes, lastOrderKey, lastOrderAt, bState, failStreak,
                 openedAt, halfProbes, LastErrorTime, now, req, i, err, wake, ncalls, hist>>

\* PlaceMarket, lines 119-123: the circuit-breaker gate (allowBreaker under bMu)
GateBreaker(c) ==
  /\ pc[c] = "breaker"
  /\ bMu \in {NoCaller, c}
  /\ bMu' = NoCaller
  /\ gates' = [gates EXCEPT ![c] = Append(@, "breaker")]
  /\ LET r == allowBreaker(now[c])
     IN /\ bState' = r.bState
        /\ halfProbes' = r.halfProbes
        /\ hist' = [hist EXCEPT !.probesPassed =
                      IF r.allow /\ r.bState = breakerHalfOpen
                      THEN (IF bState = breakerHalfOpen THEN @ ELSE 0) + 1
                      ELSE @]
        /\ IF r.allow
           THEN /\ pc' = [pc EXCEPT ![c] = "rate"]
                /\ UNCHANGED <<metric, ret, outcome>>
           ELSE Deny(c, "circuit breaker open/half-open blocking")
  /\ UNCHANGED <<clock, cfg, rvars, fvars, rateMu, orderTimes, lastOrderKey, lastOrderAt, failStreak,
                 openedAt, LastErrorTime, now, req, i, err, wake, ncalls>>

\* The rate gate returning without s.rateMu.Unlock() when it lets the call pass.
GateRateKeepsLock(c) ==
  /\ pc[c] = "rate"
  /\ rateMu \in {NoCaller, c}
  /\ gates' = [gates EXCEPT ![c] = Append(@, "rate")]
  /\ LET r == rateExceeded(now[c])
     IN /\ orderTimes' = r.orderTimes
        /\ IF r.exceeded
           THEN Deny(c, "rate limit hit") /\ rateMu' = NoCaller
           ELSE /\ pc' = [pc EXCEPT ![c] = "dup"]
                /\ rateMu' = c
                /\ UNCHANGED <<metric, ret, outcome>>
  /\ UNCHANGED <<clock, cfg, rvars, fvars, bMu, lastOrderKey, lastOrderAt, bState, failStreak, openedAt,
                 halfProbes, LastErrorTime, now, req, i, err, wake, ncalls, hist>>

\* PlaceMarket, lines 125-129: the rate gate (rateExceeded under rateMu)
GateRate(c) ==
  /\ pc[c] = "rate"
  /\ rateMu \in {NoCaller, c}
  /\ rateMu' = NoCaller
  /\ gates' = [gates EXCEPT ![c] = Append(@, "rate")]
  /\ LET r == rateExceeded(now[c])
     IN /\ orderTimes' = r.orderTimes
        /\ IF r.exceeded
           THEN Deny(c, "rate limit hit")
           ELSE /\ pc' = [pc EXCEPT ![c] = "dup"]
                /\ UNCHANGED <<metric, ret, outcome>>
  /\ UNCHANGED <<clock, cfg, rvars, fvars, bMu, lastOrderKey, lastOrderAt, bState, failStreak, openedAt,
                 halfProbes, LastErrorTime, now, req, i, err, wake, ncalls, hist>>

\* The duplicate test with the window bound included (<= for <).
isDuplicateInclusive(okey, n) == okey = lastOrderKey /\ Sub(n, lastOrderAt) <= cfg.dupWindow

\* The duplicate test of line 133.
isDuplicate(okey, n) == okey = lastOrderKey /\ Sub(n, lastOrderAt) < cfg.dupWindow

\* The duplicate gate with the return of line 135 forgotten.
GateDupNoReturn(c) ==
  /\ pc[c] = "dup"
  /\ gates' = [gates EXCEPT ![c] = Append(@, "dup")]
  /\ IF isDuplicate(ordKey(req[c]), now[c])
     THEN /\ metric' = [metric EXCEPT !.suppressed = @ + 1]
          /\ ret' = [ret EXCEPT ![c] = "duplicate order suppressed"]
          /\ outcome' = [outcome EXCEPT ![c] = "denied"]
          /\ pc' = [pc EXCEPT ![c] = "attempt"]
     ELSE /\ pc' = [pc EXCEPT ![c] = IF 0 <= cfg.maxRetries THEN "attempt" ELSE "noteFailure"]
          /\ UNCHANGED <<metric, ret, outcome>>
  /\ UNCHANGED <<clock, cfg, rvars, fvars, rateMu, bMu, orderTimes, lastOrderKey, lastOrderAt, bState, failStreak,
                 openedAt, halfProbes, LastErrorTime, now, req, i, err, wake, ncalls, hist>>

\* PlaceMarket, lines 131-141: the duplicate gate (no lock taken), then entry
\* into the retry loop: var err error; i := 0; i <= maxRetries
GateDup(c) ==
  /\ pc[c] = "dup"
  /\ gates' = [gates EXCEPT ![c] = Append(@, "dup")]
  /\ IF isDuplicate(ordKey(req[c]), now[c])
     THEN Deny(c, "duplicate order suppressed")
     ELSE /\ pc' = [pc EXCEPT ![c] = IF 0 <= cfg.maxRetries THEN "attempt" ELSE "noteFailure"]
          /\ UNCHANGED <<metric, ret, outcome>>
  /\ UNCHANGED <<clock, cfg, rvars, fvars, rateMu, bMu, orderTimes, lastOrderKey, lastOrderAt, bState, failStreak,
                 openedAt, halfProbes, LastErrorTime, now, req, i, err, wake, ncalls, hist>>

\* PlaceMarket, lines 142-147: one call of inner.PlaceMarket; on failure the
\* caller goes to sleep for (i+1) * backoff.
Attempt(c, ok) ==
  /\ pc[c] = "attempt"
  /\ ncalls' = [ncalls EXCEPT ![c] = @ + 1]
  /\ IF ok
     THEN /\ err' = [err EXCEPT ![c] = "nil"]
          /\ pc' = [pc EXCEPT ![c] = "rateNote"]
          /\ UNCHANGED wake
     ELSE /\ err' = [err EXCEPT ![c] = "exchange error"]
          /\ wake' = [wake EXCEPT ![c] = clock + (i[c] + 1) * cfg.backoff]
          /\ pc' = [pc EXCEPT ![c] = "sleep"]
  /\ UNCHANGED <<clock, cfg, rvars, fvars, svars, now, req, i, ret, gates, outcome, hist>>

\* The retry loop with its bound off by one (i <= maxRetries + 1).
BackoffOneTooMany(c) ==
  /\ pc[c] = "sleep"
  /\ clock >= wake[c]
  /\ i' = [i EXCEPT ![c] = @ + 1]
  /\ pc' = [pc EXCEPT ![c] = IF i[c] + 1 <= cfg.maxRetries + 1 THEN "attempt" ELSE "noteFailure"]
  /\ UNCHANGED <<clock, cfg, rvars, fvars, svars, now, req, err, wake, ret, ncalls, gates, outcome, hist>>

\* PlaceMarket, lines 141 and 147: time.Sleep returns; i++; i <= maxRetries
Backoff(c) ==
  /\ pc[c] = "sleep"
  /\ clock >= wake[c]
  /\ i' = [i EXCEPT ![c] = @ + 1]
  /\ pc' = [pc EXCEPT ![c] = IF i[c] + 1 <= cfg.maxRetries THEN "attempt" ELSE "noteFailure"]
  /\ UNCHANGED <<clock, cfg, rvars, fvars, svars, now, req, err, wake, ret, ncalls, gates, outcome, hist>>

\* noteSuccess, line 219: s.rateNote(now) under rateMu
NoteSuccessRate(c) ==
  /\ pc[c] = "rateNote"
  /\ rateMu \in {NoCaller, c}
  /\ rateMu' = NoCaller
  /\ orderTimes' = rateNote(now[c])
  /\ pc' = [pc EXCEPT ![c] = "dupNote"]
  /\ UNCHANGED <<clock, cfg, rvars, fvars, bMu, lastOrderKey, lastOrderAt, bState, failStreak, openedAt,
                 halfProbes, LastErrorTime, metric, now, req, i, err, wake, ret, ncalls,
                 gates, outcome, hist>>

\* noteSuccess, lines 220-221: the dedup fields (no lock) and the placed counter
NoteSuccessDup(c) ==
  /\ pc[c] = "dupNote"
  /\ lastOrderKey' = ordKey(req[c])
  /\ lastOrderAt' = now[c]
  /\ metric' = [metric EXCEPT !.placed = @ + 1]
  /\ hist' = [hist EXCEPT !.succ = Append(@, [triple |-> req[c], at |-> now[c]])]
  /\ pc' = [pc EXCEPT ![c] = "breakerSuccess"]
  /\ UNCHANGED <<clock, cfg, rvars, fvars, rateMu, bMu, orderTimes, bState, failStreak, openedAt, halfProbes,
                 LastErrorTime, now, req, i, err, wake, ret, ncalls, gates, outcome>>

\* noteSuccess, lines 224-236 (under bMu), then PlaceMarket line 145: return ord, nil
NoteSuccessBreaker(c) ==
  /\ pc[c] = "breakerSuccess"
  /\ bMu \in {NoCaller, c}
  /\ bMu' = NoCaller
  /\ bState' = successBreaker.bState
  /\ failStreak' = successBreaker.failStreak
  /\ hist' = [hist EXCEPT !.failsSinceSuccess = 0]
  /\ ret' = [ret EXCEPT ![c] = "nil"]
  /\ outcome' = [outcome EXCEPT ![c] = "placed"]
  /\ pc' = [pc EXCEPT ![c] = "done"]
  /\ UNCHANGED <<clock, cfg, rvars, fvars, rateMu, orderTimes, lastOrderKey, lastOrderAt, openedAt, halfProbes,
                 LastErrorTime, metric, now, req, i, err, wake, ncalls, gates>>

\* noteFailure, line 240: s.riskS.NoteError(), which stores time.Now()
NoteFailureRisk(c) ==
  /\ pc[c] = "noteFailure"
  /\ LastErrorTime' = clock
  /\ pc' = [pc EXCEPT ![c] = "breakerFailure"]
  /\ UNCHANGED <<clock, cfg, rvars, fvars, rateMu, bMu, orderTimes, lastOrderKey, lastOrderAt, bState, failStreak,
                 openedAt, halfProbes, metric, now, req, i, err, wake, ret, ncalls, gates,
                 outcome, hist>>

\* noteFailure, lines 242-263 (under bMu, with its metricOrdersSuppressed.Inc()),
\* then PlaceMarket lines 151-152: metricOrdersFailed.Inc(); return ord, err
NoteFailureBreaker(c) ==
  /\ pc[c] = "breakerFailure"
  /\ bMu \in {NoCaller, c}
  /\ bMu' = NoCaller
  /\ LET r == failureBreaker(now[c])
     IN /\ bState' = r.bState
        /\ failStreak' = r.failStreak
        /\ openedAt' = r.openedAt
        /\ hist' = [hist EXCEPT
                      !.failsSinceSuccess = @ + 1,
                      !.openMoment = IF bState # breakerOpen /\ r.bState = breakerOpen
                                     THEN clock ELSE @]
  /\ metric' = [metric EXCEPT !.suppressed = @ + 1, !.failed = @ + 1]
  /\ ret' = [ret EXCEPT ![c] = err[c]]
  /\ outcome' = [outcome EXCEPT ![c] = "failed"]
  /\ pc' = [pc EXCEPT ![c] = "done"]
  /\ UNCHANGED <<clock, cfg, rvars, fvars, rateMu, orderTimes, lastOrderKey, lastOrderAt, halfProbes,
                 LastErrorTime, now, req, i, err, wake, ncalls, gates>>

\* The call has returned; the goroutine is free to call again.
Return(c) ==
  /\ pc[c] = "done"
  /\ pc' = [pc EXCEPT ![c] = "idle"]
  /\ now' = [now EXCEPT ![c] = 0]
  /\ req' = [req EXCEPT ![c] = NoTriple]
  /\ i' = [i EXCEPT ![c] = 0]
  /\ err' = [err EXCEPT ![c] = "nil"]
  /\ wake' = [wake EXCEPT ![c] = 0]
  /\ ret' = [ret EXCEPT ![c] = "none"]
  /\ ncalls' = [ncalls EXCEPT ![c] = 0]
  /\ gates' = [gates EXCEPT ![c] = <<>>]
  /\ outcome' = [outcome EXCEPT ![c] = "none"]
  /\ UNCHANGED <<clock, cfg, rvars, fvars, svars, hist>>

\* Time passes.
Tick ==
  /\ clock' = clock + 1
  /\ UNCHANGED <<cfg, rvars, fvars, svars, lvars, hist>>

Step(c) ==
  \/ GateCooldown(c)
  \/ GateBreaker(c)
  \/ GateRate(c)
  \/ GateDup(c)
  \/ \E ok \in BOOLEAN : Attempt(c, ok)
  \/ Backoff(c)
  \/ NoteSuccessRate(c)
  \/ NoteSuccessDup(c)
  \/ NoteSuccessBreaker(c)
  \/ NoteFailureRisk(c)
  \/ NoteFailureBreaker(c)
  \/ Return(c)

\* ------------------------------------------------- concurrent callers: Spec
\* Any caller may begin a call at any time.
ConcTriples == { <<"BTC-USD", "BUY", 10>> }

\* (perMinuteCap, maxRetries, backoff, dupWindow, breakerThreshold,
\*  breakerCooldown, breakerHalfOpenProbes, error cooldown)
ConcConfigs ==
  { NewSafeExchange(0,  0, 1, 2, 1, 1, 0, 1),
    NewSafeExchange(1,  1, 1, 2, 2, 1, 0, 1),
    NewSafeExchange(0, -1, 1, 2, 1, 1, 2, 1),
    NewSafeExchange(2,  0, 1, 1, 1, 2, 2, 0),
    NewSafeExchange(0,  1, 0, 2, 0, 0, 1, 2),
    NewSafeExchange(1,  0, 1, 2, 2, 2, 1, 0) }

Init == cfg \in ConcConfigs /\ InitState /\ NewState(10000, 0) /\ VolLookback = 1 /\ NoDisk

Next ==
  \/ \E c \in Callers : \E t \in ConcTriples :
        metric.attempted < MaxConcCalls /\ Begin(c, t)
  \/ \E c \in Callers : Step(c)
  \/ clock < MaxConcTime /\ Tick

Spec == Init /\ [][Next]_vars

\* ------------------------------------------------ sequential calls: SeqSpec
\* One goroutine calls PlaceMarket again and again; a call begins only after
\* the previous one has returned.
SeqConfigs ==
  Configs({0, 1, 2}, {0, 1}, {1}, {0, 1, 2}, {1, 2}, {2}, {0}, {1})

SeqInit == cfg \in SeqConfigs /\ InitState /\ NewState(10000, 0) /\ VolLookback = 1 /\ NoDisk

SeqNext ==
  \/ \E t \in Triples : metric.attempted < MaxSeqCalls /\ Begin("c1", t)
  \/ Step("c1")
  \/ clock < MaxSeqTime /\ Tick

SeqSpec == SeqInit /\ [][SeqNext]_vars

\* ------------------------------------------- lock by lock: LockSpec
\* The callers of Spec, with the acquisition of each mutex as a step of its own:
\* a caller waits at Lock() for as long as another caller holds the mutex.

\* s.rateMu.Lock() in rateExceeded (line 163) and in rateNote (line 183)
LockRate(c) ==
  /\ pc[c] \in {"rate", "rateNote"}
  /\ rateMu = NoCaller
  /\ rateMu' = c
  /\ UNCHANGED <<clock, cfg, rvars, fvars, orderTimes, lastOrderKey, lastOrderAt, bMu, bState,
                 failStreak, openedAt, halfProbes, LastErrorTime, metric, lvars, hist>>

\* s.bMu.Lock() in allowBreaker (line 190), noteSuccess (224) and noteFailure (242)
LockBreaker(c) ==
  /\ pc[c] \in {"breaker", "breakerSuccess", "breakerFailure"}
  /\ bMu = NoCaller
  /\ bMu' = c
  /\ UNCHANGED <<clock, cfg, rvars, fvars, rateMu, orderTimes, lastOrderKey, lastOrderAt, bState,
                 failStreak, openedAt, halfProbes, LastErrorTime, metric, lvars, hist>>

LockStep(c) ==
  \/ GateCooldown(c)
  \/ LockBreaker(c)
  \/ bMu = c /\ GateBreaker(c)
  \/ LockRate(c)
  \/ rateMu = c /\ GateRate(c)
  \/ GateDup(c)
  \/ \E ok \in BOOLEAN : Attempt(c, ok)
  \/ Backoff(c)
  \/ rateMu = c /\ NoteSuccessRate(c)
  \/ NoteSuccessDup(c)
  \/ bMu = c /\ NoteSuccessBreaker(c)
  \/ NoteFailureRisk(c)
  \/ bMu = c /\ NoteFailureBreaker(c)
  \/ Return(c)

LockConfigs ==
  { NewSafeExchange(1, 0, 1, 2, 1, 1, 1, 0),
    NewSafeExchange(0, 1, 0, 2, 2, 1, 1, 0) }

LockInit == cfg \in LockConfigs /\ InitState /\ NewState(10000, 0) /\ VolLookback = 1 /\ NoDisk

LockNext ==
  \/ \E c \in Callers : \E t \in ConcTriples :
        metric.attempted < MaxLockCalls /\ Begin(c, t)
  \/ \E c \in Callers : LockStep(c)
  \/ clock < MaxLockTime /\ Tick

LockSpec == LockInit /\ [][LockNext]_vars

\* ------------------------------------------ the breaker recovers: LiveSpec
\* One goroutine that calls PlaceMarket again and again, in an environment where
\* time keeps advancing, calls with fresh triples keep arriving and the exchange
\* succeeds from FailUntil on.  A
\* call returns within MaxCallTime of its beginning, at most CallsPerTick calls
\* begin per instant on average, and the run ends at LiveHorizon, late enough
\* for every wait of the code (backoff, error cooldown, breaker cooldown, the
\* rate window) to run out after the last failure.
LiveHorizon == FailUntil + MaxCallTime + OneMinute + 1

LiveTriples == { <<"BTC-USD", "BUY", 10>>, <<"BTC-USD", "SELL", 10>> }

LiveConfigs ==
  { NewSafeExchange(1,  0, 1, 1, 1, 1, 1, 1),
    NewSafeExchange(0,  1, 0, 1, 1, 1, 1, 0),
    NewSafeExchange(0, -1, 1, 1, 1, 1, 1, 1) }

LiveInit == cfg \in LiveConfigs /\ InitState /\ NewState(10000, 0) /\ VolLookback = 1 /\ NoDisk

\* A call with a fresh triple arrives.
LiveBegin ==
  \E t \in LiveTriples :
    /\ ordKey(t) # lastOrderKey
    /\ metric.attempted < CallsPerTick * (clock + 1)
    /\ Begin("c1", t)

\* inner.PlaceMarket fails only before FailUntil.
LiveStep(c) ==
  \/ GateCooldown(c)
  \/ GateBreaker(c)
  \/ GateRate(c)
  \/ GateDup(c)
  \/ \E ok \in BOOLEAN : (ok \/ clock < FailUntil) /\ Attempt(c, ok)
  \/ Backoff(c)
  \/ NoteSuccessRate(c)
  \/ NoteSuccessDup(c)
  \/ NoteSuccessBreaker(c)
  \/ NoteFailureRisk(c)
  \/ NoteFailureBreaker(c)
  \/ Return(c)

\* Time advances while every call in progress is younger than MaxCallTime.
LiveTick ==
  /\ clock < LiveHorizon
  /\ pc["c1"] \notin {"idle", "done"} => clock + 1 - now["c1"] <= MaxCallTime
  /\ Tick

LiveNext ==
  \/ LiveBegin
  \/ LiveStep("c1")
  \/ LiveTick

LiveSpec ==
  /\ LiveInit
  /\ [][LiveNext]_vars
  /\ WF_vars(LiveBegin)
  /\ WF_vars(LiveStep("c1"))
  /\ WF_vars(LiveTick)

\* ------------------------------------------------------ float64 arithmetic
\* A float64 is modelled by its sign (-1, 0, 1), its 53-bit significand (most
\* significant bit first, leading bit 1) and the exponent of the last bit:
\* value = sign * mant * 2^exp. Every operation rounds to nearest, ties to
\* even, as Go's float64 operators do. The magnitudes that occur stay far from
\* overflow and from the subnormal range.
Significand == 53

FloatZero == [sign |-> 0, mant |-> [j \in 1..Significand |-> 0], exp |-> 0]

Abs(n) == IF n < 0 THEN 0 - n ELSE n
Sign(n) == IF n < 0 THEN -1 ELSE IF n = 0 THEN 0 ELSE 1

\* Bit strings are handled nine bits at a time, as digits in base 512.
DigitsToBits(ds) ==
  [j \in 1..(9 * Len(ds)) |-> (ds[((j - 1) \div 9) + 1] \div 2 ^ (8 - ((j - 1) % 9))) % 2]

BitsToDigits(bits) ==
  [d \in 1..(Len(bits) \div 9) |->
     LET o == 9 * (d - 1)
     IN 256 * bits[o + 1] + 128 * bits[o + 2] + 64 * bits[o + 3] + 32 * bits[o + 4]
        + 16 * bits[o + 5] + 8 * bits[o + 6] + 4 * bits[o + 7] + 2 * bits[o + 8]
        + bits[o + 9]]

\* bits without its leading zeros (bits holds a 1).
StripZeros(bits) ==
  LET ones == { j \in 1..Len(bits) : bits[j] = 1 }
  IN SubSeq(bits, CHOOSE j \in ones : \A k \in ones : j <= k, Len(bits))

\* The binary digits of n > 0, most significant first.
Bits(n) ==
  LET L == CHOOSE l \in 1..31 : 2 ^ (l - 1) <= n /\ (l = 31 \/ n < 2 ^ l)
  IN [j \in 1..L |-> (n \div 2 ^ (L - j)) % 2]

\* mant + 1; the result is one bit longer when every bit was 1.
Inc(m) ==
  LET zeros == { j \in 1..Len(m) : m[j] = 0 }
  IN IF zeros = {} THEN <<1>> \o [j \in 1..Len(m) |-> 0]
     ELSE LET z == CHOOSE j \in zeros : \A k \in zeros : j >= k
          IN [j \in 1..Len(m) |-> IF j < z THEN m[j] ELSE IF j = z THEN 1 ELSE 0]

\* Round bits * 2^e (plus, when sticky, a non-zero amount below the last bit)
\* to a 53-bit significand: nearest, ties to even. bits has a leading 1.
RoundNearestEven(sign, bits, sticky, e) ==
  LET L     == Len(bits)
      drop  == IF L > Significand THEN L - Significand ELSE 0
      keep  == IF drop = 0 THEN bits \o [j \in 1..(Significand - L) |-> 0]
               ELSE SubSeq(bits, 1, Significand)
      rest  == SubSeq(bits, Significand + 1, L)
      half  == drop > 0 /\ rest[1] = 1
      below == sticky \/ \E j \in 2..drop : rest[j] = 1
      up    == half /\ (below \/ keep[Significand] = 1)
      m     == IF up THEN Inc(keep) ELSE keep
      e0    == IF drop = 0 THEN e - (Significand - L) ELSE e + drop
  IN IF Len(m) > Significand
     THEN [sign |-> sign, mant |-> SubSeq(m, 1, Significand), exp |-> e0 + 1]
     ELSE [sign |-> sign, mant |-> m, exp |-> e0]

\* The float64 holding the integer n (exact below 2^53).
FromInt(n) ==
  IF n = 0 THEN FloatZero ELSE RoundNearestEven(Sign(n), Bits(Abs(n)), FALSE, 0)

\* The largest k with y * 2^k <= x, for x >= y > 0.
RECURSIVE Log2Quo(_, _)
Log2Quo(x, y) == IF x < 2 * y THEN 0 ELSE 1 + Log2Quo(x, 2 * y)

\* The smallest j with x * 2^j >= y, for 0 < x.
RECURSIVE Log2Up(_, _)
Log2Up(x, y) == IF x >= y THEN 0 ELSE 1 + Log2Up(2 * x, y)

\* cnt more base-512 digits of the quotient rem / d by long division (rem < d).
RECURSIVE DivSteps(_, _, _, _)
DivSteps(rem, d, cnt, acc) ==
  IF cnt = 0 THEN [digits |-> acc, rem |-> rem]
  ELSE DivSteps((512 * rem) % d, d, cnt - 1, Append(acc, (512 * rem) \div d))

\* a / b for integral float64 operands a and b, b > 0 (both below 2^21): the
\* exact quotient rounded once.
FQuo(a, b) ==
  IF a = 0 THEN FloatZero
  ELSE LET n  == Abs(a)
           k  == IF n >= b THEN Log2Quo(n, b) ELSE 0 - Log2Up(n, b)
           A  == IF k < 0 THEN n * 2 ^ (0 - k) ELSE n
           B  == IF k > 0 THEN b * 2 ^ k ELSE b
           q  == DivSteps(A - B, B, 6, <<>>)
       IN RoundNearestEven(Sign(a), <<1>> \o DigitsToBits(q.digits), q.rem # 0, k - 54)

\* The base-512 digits of ds * c + carry for a small integer c > 0.
RECURSIVE MulDigits(_, _, _)
MulDigits(ds, c, carry) ==
  IF ds = <<>> THEN IF carry = 0 THEN <<>> ELSE <<carry>>
  ELSE LET v == ds[Len(ds)] * c + carry
       IN Append(MulDigits(SubSeq(ds, 1, Len(ds) - 1), c, v \div 512), v % 512)

\* The bits of mant * c for a small integer c > 0 (c < 512).
MulSmall(m, c) ==
  LET pad == (9 - (Len(m) % 9)) % 9
      ds  == BitsToDigits([j \in 1..pad |-> 0] \o m)
  IN StripZeros(DigitsToBits(MulDigits(ds, c, 0)))

\* x * c for a float64 x and a small integer constant c > 0 (exactly
\* representable): the exact product rounded once.
FMulInt(x, c) ==
  IF x.sign = 0 THEN FloatZero
  ELSE RoundNearestEven(x.sign, MulSmall(x.mant, c), FALSE, x.exp)

\* |x| >= |y| for non-zero x and y.
MagGeq(x, y) ==
  \/ x.exp > y.exp
  \/ /\ x.exp = y.exp
     /\ LET diff == { j \in 1..Significand : x.mant[j] # y.mant[j] }
        IN diff = {} \/ x.mant[CHOOSE j \in diff : \A k \in diff : j <= k] = 1

\* x >= y
FGeq(x, y) ==
  IF x.sign # y.sign THEN x.sign > y.sign
  ELSE IF x.sign = 0 THEN TRUE
  ELSE IF x.sign = 1 THEN MagGeq(x, y)
  ELSE MagGeq(y, x)

\* -------------------------------------------------------------- risk.State
\* lossPct := (s.EquityAtOpenUSD - s.EquityNowUSD) / s.EquityAtOpenUSD * 100
\* The operands are whole numbers below 2^53, so the subtraction is exact; the
\* division and the multiplication each round.
lossPct(open, cur) == FMulInt(FQuo(open - cur, open), 100)

\* risk.State.BreachDailyLoss
BreachDailyLoss(maxLossPct) ==
  IF EquityAtOpenUSD <= 0 THEN FALSE
  ELSE FGeq(lossPct(EquityAtOpenUSD, EquityNowUSD), FromInt(maxLossPct))

\* risk.State.UpdateEquity
UpdateEquity(current) ==
  /\ EquityNowUSD' = current
  /\ hist' = [hist EXCEPT !.breach = NoBreach]
  /\ UNCHANGED <<clock, cfg, EquityAtOpenUSD, OrdersToday, RealizedPnLUSD, DayOpen, prices,
                 VolLookback, fvars, svars, lvars>>

\* risk.State.ResetDay (the files and the day manager are its caller's business)
ResetDay(newEquity, newOpen) ==
  /\ EquityAtOpenUSD' = newEquity
  /\ EquityNowUSD' = newEquity
  /\ OrdersToday' = 0
  /\ RealizedPnLUSD' = 0
  /\ DayOpen' = newOpen
  /\ prices' = <<>>
  /\ hist' = [hist EXCEPT !.breach = NoBreach, !.pushed = <<>>]
  /\ UNCHANGED <<clock, cfg, VolLookback, svars, lvars>>

\* PushPrice trimming the newest price instead of the oldest.
PushPriceDropsNewest(px, lookback) ==
  /\ prices' = LET appended == Append(prices, px)
               IN IF Len(appended) > lookback
                  THEN SubSeq(appended, 1, Len(appended) - 1) ELSE appended
  /\ hist' = [hist EXCEPT !.pushed = Append(@, px)]
  /\ UNCHANGED <<clock, cfg, EquityAtOpenUSD, EquityNowUSD, OrdersToday, RealizedPnLUSD,
                 DayOpen, VolLookback, fvars, svars, lvars>>

\* risk.State.PushPrice
PushPrice(px, lookback) ==
  /\ prices' = LET appended == Append(prices, px)
               IN IF Len(appended) > lookback THEN Tail(appended) ELSE appended
  /\ hist' = [hist EXCEPT !.pushed = Append(@, px)]
  /\ UNCHANGED <<clock, cfg, EquityAtOpenUSD, EquityNowUSD, OrdersToday, RealizedPnLUSD,
                 DayOpen, VolLookback, fvars, svars, lvars>>

\* A call of BreachDailyLoss(maxLossPct); its result is recorded.
CheckKillSwitch(maxLossPct) ==
  /\ hist' = [hist EXCEPT !.breach = [maxLossPct |-> maxLossPct,
                                      result     |-> BreachDailyLoss(maxLossPct)]]
  /\ UNCHANGED <<clock, cfg, rvars, fvars, svars, lvars>>

\* ---------------------------------------- the kill switch on its own (RiskSpec)
\* Equity values in whole dollars, and loss limits in whole percent.
Equities == {-50, 0, 71, 100, 9400, 9600, 10000}
LossLimits == 0..MaxLossPct

RiskInit ==
  /\ cfg = NewSafeExchange(0, 0, 1, 1, 1, 1, 1, 1)
  /\ InitState
  /\ \E eq \in Equities : NewState(eq, 0)
  /\ VolLookback = 1
  /\ NoDisk

RiskNext ==
  \/ \E current \in Equities : UpdateEquity(current)
  \/ \E newEquity \in Equities : ResetDay(newEquity, DayOpen) /\ UNCHANGED fvars
  \/ \E maxLossPct \in LossLimits : CheckKillSwitch(maxLossPct)

RiskSpec == RiskInit /\ [][RiskNext]_vars

\* ------------------------------------- the rolling price window (PriceSpec)
\* Prices pushed, and the configured lookback (main.go pushes only when the
\* lookback is positive; 0 is kept as the edge).
PriceValues == {101, 102, 103}

PriceInit ==
  /\ cfg = NewSafeExchange(0, 0, 1, 1, 1, 1, 1, 1)
  /\ InitState
  /\ NewState(10000, 0)
  /\ VolLookback \in 0..MaxLookback
  /\ NoDisk

PriceNext ==
  \/ \E px \in PriceValues : Len(hist.pushed) < MaxPushes /\ PushPrice(px, VolLookback)
  \/ ResetDay(EquityNowUSD, DayOpen) /\ UNCHANGED fvars

PriceSpec == PriceInit /\ [][PriceNext]_vars

\* ----------------------------------------------------------- SaveSnapshot
\* The bytes of a write cut short after n tokens.
Prefix(bytes, n) == SubSeq(bytes, 1, n)

\* SaveSnapshot, line 76: b := json.MarshalIndent(s); the caller records what
\* the primary file held when the call began.
BeginSave(snap) == [pc |-> "bak", data |-> Marshal(snap), ret |-> "none"]

\* SaveSnapshot, line 79: os.WriteFile(path+".bak", b) opens the file with
\* O_CREATE|O_TRUNC; a failure is ignored.
WriteBakOpen(ok) ==
  /\ save.pc = "bak"
  /\ bak' = IF ok THEN File(<<>>) ELSE bak
  /\ save' = [save EXCEPT !.pc = IF ok THEN "bakWrite" ELSE "createTemp"]
  /\ UNCHANGED <<clock, cfg, rvars, dm, primary, tmp, leftover, op, svars, lvars, hist>>

\* SaveSnapshot, line 79: os.WriteFile writes the new bytes b to the .bak file;
\* a short write is ignored.
WriteBakData(n) ==
  /\ save.pc = "bakWrite"
  /\ bak' = File(Prefix(save.data, n))
  /\ save' = [save EXCEPT !.pc = "createTemp"]
  /\ UNCHANGED <<clock, cfg, rvars, dm, primary, tmp, leftover, op, svars, lvars, hist>>

\* writeFileAtomic, lines 13-16: os.CreateTemp, and defer os.Remove(tmpPath).
CreateTemp(ok) ==
  /\ save.pc = "createTemp"
  /\ tmp' = IF ok THEN File(<<>>) ELSE tmp
  /\ save' = IF ok THEN [save EXCEPT !.pc = "write"]
             ELSE [save EXCEPT !.pc = "done", !.ret = "err"]
  /\ UNCHANGED <<clock, cfg, rvars, dm, primary, bak, leftover, op, svars, lvars, hist>>

\* writeFileAtomic, line 18: tmp.Write(data); on error tmp.Close() and return.
TmpWrite(n) ==
  /\ save.pc = "write"
  /\ tmp' = File(Prefix(save.data, n))
  /\ save' = IF n = Len(save.data) THEN [save EXCEPT !.pc = "sync"]
             ELSE [save EXCEPT !.pc = "remove", !.ret = "err"]
  /\ UNCHANGED <<clock, cfg, rvars, dm, primary, bak, leftover, op, svars, lvars, hist>>

\* writeFileAtomic, line 19: tmp.Sync()
TmpSync(ok) ==
  /\ save.pc = "sync"
  /\ save' = IF ok THEN [save EXCEPT !.pc = "close"]
             ELSE [save EXCEPT !.pc = "remove", !.ret = "err"]
  /\ UNCHANGED <<clock, cfg, rvars, dm, primary, bak, tmp, leftover, op, svars, lvars, hist>>

\* writeFileAtomic, line 20: tmp.Close()
TmpClose(ok) ==
  /\ save.pc = "close"
  /\ save' = IF ok THEN [save EXCEPT !.pc = "rename"]
             ELSE [save EXCEPT !.pc = "remove", !.ret = "err"]
  /\ UNCHANGED <<clock, cfg, rvars, dm, primary, bak, tmp, leftover, op, svars, lvars, hist>>

\* The rename replaced by a copy over the primary file that is cut short.
RenameTornCopy(ok) ==
  /\ save.pc = "rename"
  /\ IF ok
     THEN /\ primary' = File(Prefix(tmp.bytes, 3))
          /\ tmp' = NoFile
          /\ save' = [save EXCEPT !.pc = "dirSync"]
     ELSE /\ save' = [save EXCEPT !.pc = "remove", !.ret = "err"]
          /\ UNCHANGED <<primary, tmp>>
  /\ UNCHANGED <<clock, cfg, rvars, dm, bak, leftover, op, svars, lvars, hist>>

\* writeFileAtomic, line 22: os.Rename(tmpPath, path)
Rename(ok) ==
  /\ save.pc = "rename"
  /\ IF ok
     THEN /\ primary' = tmp
          /\ tmp' = NoFile
          /\ save' = [save EXCEPT !.pc = "dirSync"]
     ELSE /\ save' = [save EXCEPT !.pc = "remove", !.ret = "err"]
          /\ UNCHANGED <<primary, tmp>>
  /\ UNCHANGED <<clock, cfg, rvars, dm, bak, leftover, op, svars, lvars, hist>>

\* writeFileAtomic, lines 25-29: best-effort sync of the directory; return nil.
DirSync ==
  /\ save.pc = "dirSync"
  /\ save' = [save EXCEPT !.pc = "remove", !.ret = "nil"]
  /\ UNCHANGED <<clock, cfg, rvars, dm, primary, bak, tmp, leftover, op, svars, lvars, hist>>

\* writeFileAtomic, line 16: the deferred os.Remove(tmpPath) on every return.
RemoveTmp ==
  /\ save.pc = "remove"
  /\ tmp' = NoFile
  /\ save' = [save EXCEPT !.pc = "done"]
  /\ UNCHANGED <<clock, cfg, rvars, dm, primary, bak, leftover, op, svars, lvars, hist>>

\* The process dies inside SaveSnapshot: nothing deferred runs, and the files
\* stay as they are (a temporary file stays in the directory).
Crash ==
  /\ save.pc \notin {"idle", "done", "crashed"}
  /\ save' = [save EXCEPT !.pc = "crashed"]
  /\ op' = [op EXCEPT !.name = "down"]
  /\ leftover' = IF tmp.exists THEN leftover + 1 ELSE leftover
  /\ tmp' = NoFile
  /\ hist' = [hist EXCEPT !.crashes = @ + 1]
  /\ UNCHANGED <<clock, cfg, rvars, dm, primary, bak, svars, lvars>>

\* ------------------------------------------------------------- DayManager
\* The locals of a DayManager call that has just been entered.
Enter(name, n, equityNow, snap) ==
  [name |-> name, now |-> n, equityNow |-> equityNow, snap |-> snap,
   loaded |-> NoFile, ret |-> "none", last |-> op.last]

\* The locals after the call returned ret.
Leave(result) == [op EXCEPT !.name = "idle", !.ret = result, !.last = op.name]

\* InitAtStartup, lines 148-152 and 158-162: the snapshot is loaded; without a
\* snapshot of today the seed is saved, otherwise (line 169) the state is reset
\* from the snapshot.
InitAtStartup(n, equityNow) ==
  /\ op.name = "start"
  /\ LET seed   == SeedForToday(dm.TZ, n, equityNow)
         loaded == LoadSnapshot(primary)
         parsed == ParseDayOpenISO(loaded.snap.DayOpenISO)
     IN IF ~loaded.ok \/ ~parsed.ok \/ ~SameTradingDay(dm.TZ, parsed.t, n)
        THEN /\ save' = BeginSave(seed)
             /\ op' = [Enter("init", n, equityNow, seed) EXCEPT !.loaded = primary]
             /\ hist' = [hist EXCEPT !.savedOver = primary, !.tempsBefore = leftover]
             /\ UNCHANGED rvars
        ELSE /\ ResetDay(loaded.snap.EquityAtOpenUSD, TodayOpen(dm.TZ, n))
             /\ op' = [Enter("restore", n, equityNow, loaded.snap) EXCEPT !.loaded = primary]
             /\ UNCHANGED save
  /\ UNCHANGED <<clock, cfg, VolLookback, dm, primary, bak, tmp, leftover, svars, lvars>>

\* InitAtStartup, lines 153-155 and 163-165: the save's error is dropped, the
\* state is reset from the seed.
InitAtStartupSeeded ==
  /\ op.name = "init"
  /\ save.pc = "done"
  /\ ResetDay(op.snap.EquityAtOpenUSD, TodayOpen(dm.TZ, op.now))
  /\ op' = [Leave("seeded") EXCEPT !.last = "init"]
  /\ save' = NoSave
  /\ UNCHANGED <<dm, primary, bak, tmp, leftover>>

\* InitAtStartup returning after the reset, with the day's progress left at zero.
InitAtStartupRestoreNothing ==
  /\ op.name = "restore"
  /\ op' = [Leave("loaded") EXCEPT !.last = "init"]
  /\ UNCHANGED <<clock, cfg, rvars, dm, primary, bak, tmp, leftover, save, svars, lvars, hist>>

\* InitAtStartup, lines 170-173: the day's progress is taken from the snapshot.
InitAtStartupRestore ==
  /\ op.name = "restore"
  /\ OrdersToday' = op.snap.OrdersToday
  /\ RealizedPnLUSD' = op.snap.RealizedPnLUSD
  /\ op' = [Leave("loaded") EXCEPT !.last = "init"]
  /\ UNCHANGED <<clock, cfg, EquityAtOpenUSD, EquityNowUSD, DayOpen, prices, VolLookback,
                 dm, primary, bak, tmp, leftover, save, svars, lvars, hist>>

\* RolloverIfNeeded, lines 179-184: false on the same trading day, otherwise
\* the new seed is saved.
RolloverIfNeeded(n, equityNow) ==
  /\ op.name = "idle"
  /\ IF SameTradingDay(dm.TZ, DayOpen, n)
     THEN /\ op' = [Enter("idle", n, equityNow, ZeroSnapshot) EXCEPT
                      !.ret = "false", !.last = "rollover"]
          /\ UNCHANGED <<save, hist>>
     ELSE /\ op' = Enter("rollover", n, equityNow, SeedForToday(dm.TZ, n, equityNow))
          /\ save' = BeginSave(SeedForToday(dm.TZ, n, equityNow))
          /\ hist' = [hist EXCEPT !.savedOver = primary, !.tempsBefore = leftover]
  /\ UNCHANGED <<clock, cfg, rvars, dm, primary, bak, tmp, leftover, svars, lvars>>

\* RolloverIfNeeded returning true without the reset when the save failed.
RolloverResetUnlessSaveFailed ==
  /\ op.name = "rollover"
  /\ save.pc = "done"
  /\ IF save.ret = "err"
     THEN UNCHANGED <<clock, cfg, rvars, svars, lvars, hist>>
     ELSE ResetDay(op.equityNow, TodayOpen(dm.TZ, op.now))
  /\ op' = Leave("true")
  /\ save' = NoSave
  /\ UNCHANGED <<dm, primary, bak, tmp, leftover>>

\* RolloverIfNeeded, lines 184-189: a failed save is logged, the state is reset
\* and true is returned.
RolloverReset ==
  /\ op.name = "rollover"
  /\ save.pc = "done"
  /\ ResetDay(op.equityNow, TodayOpen(dm.TZ, op.now))
  /\ op' = Leave("true")
  /\ save' = NoSave
  /\ UNCHANGED <<dm, primary, bak, tmp, leftover>>

\* PersistProgress, lines 194-201
PersistProgress(n) ==
  /\ op.name = "idle"
  /\ LET snap == DaySnapshot(FormatRFC3339(TodayOpen(dm.TZ, n)), dm.TZ, EquityAtOpenUSD,
                             OrdersToday, RealizedPnLUSD)
     IN /\ op' = Enter("persist", n, 0, snap)
        /\ save' = BeginSave(snap)
  /\ hist' = [hist EXCEPT !.savedOver = primary, !.tempsBefore = leftover]
  /\ UNCHANGED <<clock, cfg, rvars, dm, primary, bak, tmp, leftover, svars, lvars>>

\* PersistProgress, line 201: the save's error is dropped.
PersistDone ==
  /\ op.name = "persist"
  /\ save.pc = "done"
  /\ op' = Leave("done")
  /\ save' = NoSave
  /\ UNCHANGED <<clock, cfg, rvars, dm, primary, bak, tmp, leftover, svars, lvars, hist>>

\* main.go, lines 65-68, in a process started after a crash: a new risk state
\* from the account's equity, then InitAtStartup.
Restart(equity) ==
  /\ op.name = "down"
  /\ EquityAtOpenUSD' = equity
  /\ EquityNowUSD' = 0
  /\ OrdersToday' = 0
  /\ RealizedPnLUSD' = 0
  /\ DayOpen' = TodayOpen(dm.TZ, clock)
  /\ prices' = <<>>
  /\ op' = [NoOp EXCEPT !.name = "start"]
  /\ save' = NoSave
  /\ hist' = [hist EXCEPT !.breach = NoBreach, !.pushed = <<>>]
  /\ UNCHANGED <<clock, cfg, VolLookback, dm, primary, bak, tmp, leftover, svars, lvars>>

\* The wall clock moves on to t between two calls of the main loop (a call
\* works with the instant it was given on entry).
AdvanceClock(t) ==
  /\ op.name \in {"start", "idle", "down"}
  /\ t > clock
  /\ clock' = t
  /\ UNCHANGED <<cfg, rvars, fvars, svars, lvars, hist>>

\* ------------------------------------- the day manager and its file (DaySpec)
\* Instants of the run (a day has 2880 ticks; Tokyo's midnight is at 1800 UTC),
\* configured time zones, account equities, and what the snapshot file may hold
\* when the process starts.
DayTimes == {0, 2000, 2980}
DayZones == {"", "Asia/Tokyo", "Mars/Olympus"}
DayEquities == {9000, 10000}

InitialFiles(tz) ==
  { NoFile,
    File(<<"not json">>),
    File(<<"{", "}">>),
    File(Marshal(DaySnapshot(<<"yesterday">>, tz, 9500, 3, -50))),
    File(Marshal(DaySnapshot(FormatRFC3339(TodayOpen(tz, 0) - OneDay), tz, 9500, 3, -50))),
    File(Marshal(DaySnapshot(FormatRFC3339(TodayOpen(tz, 0)), tz, 9500, 3, -50))),
    File(Marshal(DaySnapshot(FormatRFC3339(TodayOpen(tz, 0) + 7), tz, 9500, 3, -50))) }

DayInit ==
  /\ cfg = NewSafeExchange(0, 0, 1, 1, 1, 1, 1, 1)
  /\ InitState
  /\ VolLookback = 1
  /\ \E tz \in DayZones : dm = NewDayManager(tz)
  /\ primary \in InitialFiles(dm.TZ)
  /\ bak = NoFile
  /\ tmp = NoFile
  /\ leftover = 0
  /\ save = NoSave
  /\ op = [NoOp EXCEPT !.name = "start"]
  /\ \E equity \in DayEquities : NewState(equity, TodayOpen(dm.TZ, 0))

\* The steps of the SaveSnapshot call in progress.
SaveStep ==
  \/ \E ok \in BOOLEAN : WriteBakOpen(ok)
  \/ \E n \in {0, 3, Len(save.data)} : WriteBakData(n)
  \/ \E ok \in BOOLEAN : CreateTemp(ok)
  \/ \E n \in {0, 3, Len(save.data)} : TmpWrite(n)
  \/ \E ok \in BOOLEAN : TmpSync(ok)
  \/ \E ok \in BOOLEAN : TmpClose(ok)
  \/ \E ok \in BOOLEAN : Rename(ok)
  \/ DirSync
  \/ RemoveTmp

DayNext ==
  \/ \E equityNow \in DayEquities : InitAtStartup(clock, equityNow)
  \/ InitAtStartupSeeded
  \/ InitAtStartupRestore
  \/ \E equityNow \in DayEquities : RolloverIfNeeded(clock, equityNow)
  \/ RolloverReset
  \/ PersistProgress(clock)
  \/ PersistDone
  \/ SaveStep
  \/ hist.crashes < MaxCrashes /\ Crash
  \/ \E equity \in DayEquities : Restart(equity)
  \/ op.name = "idle" /\ Len(hist.pushed) < 1 /\ PushPrice(101, VolLookback)
  \/ \E t \in DayTimes : AdvanceClock(t)

DaySpec == DayInit /\ [][DayNext]_vars

\* ----------------------------------------------- the driver loop (DriverSpec)
\* main.go, lines 73-81: the limits, read from the environment.
lim == [MaxOrdersPerDay |-> 1, MaxLossPctDay |-> 5]

\* The decision engine's verdict on a buy (spec, section 4.2): the kill switch,
\* then the daily order cap, then the exposure check, whose outcome is headroom.
\* It has no side effect on the risk state.
DecideBuy(limits, headroom) ==
  IF BreachDailyLoss(limits.MaxLossPctDay)
  THEN [Allow |-> FALSE, Reason |-> "daily loss limit breached", Qty |-> 0]
  ELSE IF OrdersToday >= limits.MaxOrdersPerDay
  THEN [Allow |-> FALSE, Reason |-> "daily order cap reached", Qty |-> 0]
  ELSE IF ~headroom
  THEN [Allow |-> FALSE, Reason |-> "position limit reached", Qty |-> 0]
  ELSE [Allow |-> TRUE, Reason |-> "", Qty |-> 10]

\* The decision engine's verdict on a sell: the same two checks, the quantity
\* being capped at what is held.
DecideSell(limits, held) ==
  IF BreachDailyLoss(limits.MaxLossPctDay)
  THEN [Allow |-> FALSE, Reason |-> "daily loss limit breached", Qty |-> 0]
  ELSE IF OrdersToday >= limits.MaxOrdersPerDay
  THEN [Allow |-> FALSE, Reason |-> "daily order cap reached", Qty |-> 0]
  ELSE [Allow |-> TRUE, Reason |-> "", Qty |-> IF held < 10 THEN held ELSE 10]

\* The loop is at its top: the day manager is idle, the previous iteration has
\* persisted (or startup is over).
AtLoopTop ==
  /\ op.name = "idle"
  /\ op.last \in {"init", "persist"}
  /\ pc["c1"] \in {"idle", "done"}

\* main.go, lines 124-126: the account is read and, unless that failed, the
\* equity refreshed.
DriverUpdateEquity(current) ==
  /\ AtLoopTop
  /\ current # EquityNowUSD
  /\ UpdateEquity(current)

\* main.go, lines 113 and 129: RolloverIfNeeded(now, rs.EquityNowUSD, rs), now being the
\* clock read at the top of the iteration.
DriverRollover ==
  /\ AtLoopTop
  /\ RolloverIfNeeded(clock, EquityNowUSD)

\* The loop has come around: the result of the previous iteration's PlaceMarket
\* call (logged at lines 145-150 and 158-163) is gone.
DriverForget ==
  /\ op.name = "idle"
  /\ op.last = "rollover"
  /\ Return("c1")

\* main.go, line 132: PersistProgress(now, rs) with the same now.
DriverPersist ==
  /\ op.last = "rollover"
  /\ pc["c1"] = "idle"
  /\ PersistProgress(op.now)

\* main.go, lines 142-153: on a golden cross DecideBuy is asked and, if it
\* allows, the order is submitted; its outcome is logged and nothing else.
DriverBuy ==
  /\ op.name = "idle"
  /\ op.last = "persist"
  /\ metric.attempted < MaxDriverCalls
  /\ \E headroom \in BOOLEAN :
       LET dec == DecideBuy(lim, headroom)
       IN dec.Allow /\ Begin("c1", <<"BTC-USD", "BUY", dec.Qty>>)

\* main.go, lines 155-166: on a death cross DecideSell is asked likewise.
DriverSell ==
  /\ op.name = "idle"
  /\ op.last = "persist"
  /\ metric.attempted < MaxDriverCalls
  /\ \E held \in {10} :
       LET dec == DecideSell(lim, held)
       IN dec.Allow /\ Begin("c1", <<"BTC-USD", "SELL", dec.Qty>>)

\* The steps of the PlaceMarket call in progress.
DriverStep ==
  \/ GateCooldown("c1")
  \/ GateBreaker("c1")
  \/ GateRate("c1")
  \/ GateDup("c1")
  \/ \E ok \in BOOLEAN : Attempt("c1", ok)
  \/ Backoff("c1")
  \/ NoteSuccessRate("c1")
  \/ NoteSuccessDup("c1")
  \/ NoteSuccessBreaker("c1")
  \/ NoteFailureRisk("c1")
  \/ NoteFailureBreaker("c1")

\* Instants of the run, the second day beginning at 2880, and the account's
\* equity as the exchange reports it.
DriverTimes == {1, 2, 2881}
DriverEquities == {9000, 10000}

\* main.go, lines 62-69 and 83-95: the day manager, the risk state and the safe
\* exchange as constructed; the snapshot file is absent or was left by an
\* earlier run on a day without orders.
DriverInit ==
  /\ cfg = NewSafeExchange(0, 1, 1, 1, 2, 1, 1, 1)
  /\ InitState
  /\ VolLookback = 0
  /\ dm = NewDayManager("")
  /\ primary \in { NoFile,
                   File(Marshal(DaySnapshot(FormatRFC3339(TodayOpen(dm.TZ, 0)), dm.TZ,
                                            10000, 0, 0))) }
  /\ bak = NoFile
  /\ tmp = NoFile
  /\ leftover = 0
  /\ save = NoSave
  /\ op = [NoOp EXCEPT !.name = "start"]
  /\ NewState(10000, TodayOpen(dm.TZ, 0))

DriverNext ==
  \/ InitAtStartup(clock, EquityAtOpenUSD)
  \/ InitAtStartupSeeded
  \/ InitAtStartupRestore
  \/ \E current \in DriverEquities : DriverUpdateEquity(current)
  \/ DriverRollover
  \/ RolloverReset
  \/ DriverForget
  \/ DriverPersist
  \/ PersistDone
  \/ SaveStep
  \/ DriverBuy
  \/ DriverSell
  \/ DriverStep
  \/ \E t \in DriverTimes : AdvanceClock(t)

DriverSpec == DriverInit /\ [][DriverNext]_vars

\* ================================================================= claims
\* Steps of a caller, as seen from outside.
ExchangeCalled(c) == ncalls'[c] = ncalls[c] + 1
GateChecked(c) == pc[c] = "breaker" /\ pc'[c] # "breaker"
SuccessRecorded(c) == pc[c] = "breakerSuccess" /\ pc'[c] = "done"
FailureRecorded(c) == pc[c] = "breakerFailure" /\ pc'[c] = "done"

\* The breaker became Open at hist.openMoment and its cooldown has not yet
\* elapsed since that moment.
InOpenCooldown ==
  hist.openMoment # ZeroTime /\ clock - hist.openMoment < cfg.cooldown

\* C1: from the moment the breaker becomes Open until the breaker cooldown has
\* elapsed since that moment, no call of the underlying exchange's PlaceMarket
\* takes place, whatever the interleaving of callers and the retry/backoff
\* configuration.
C1_NoExchangeCallDuringOpenCooldown ==
  [][\A c \in Callers : ExchangeCalled(c) => ~InOpenCooldown]_vars

\* C2: while the breaker is HalfOpen, at most halfMax calls pass the breaker
\* gate before one of them resolves (a resolution leaves HalfOpen); further
\* calls are denied by the gate.
C2_HalfOpenProbesBounded ==
  bState = breakerHalfOpen => hist.probesPassed <= cfg.halfMax

\* C3: starting Closed with streak 0: while Closed the failure streak equals the
\* number of terminal failures recorded since the last recorded success and is
\* below the threshold; the terminal failure that brings the streak to the
\* threshold opens the breaker; a success recorded while Closed resets the
\* streak to 0.
C3_StreakCountsFailures ==
  /\ bState = breakerClosed /\ failStreak = 0
  /\ [](bState = breakerClosed =>
          failStreak = hist.failsSinceSuccess /\ failStreak < cfg.threshold)
  /\ [][\A c \in Callers :
          /\ (FailureRecorded(c) /\ bState = breakerClosed) =>
               /\ failStreak' = failStreak + 1
               /\ (failStreak' >= cfg.threshold <=> bState' = breakerOpen)
               /\ (failStreak' < cfg.threshold <=> bState' = breakerClosed)
          /\ (SuccessRecorded(c) /\ bState = breakerClosed) =>
               (failStreak' = 0 /\ bState' = breakerClosed)]_vars

\* C3 witness: the breaker opened on the threshold-th consecutive failure,
\* with a threshold above 1.
C3_Witness ==
  /\ bState = breakerOpen
  /\ cfg.threshold >= 2
  /\ failStreak = cfg.threshold
  /\ hist.failsSinceSuccess = cfg.threshold

GateOrder == <<"cooldown", "breaker", "rate", "dup">>
GateError ==
  [ cooldown |-> "cooldown active after error",
    breaker  |-> "circuit breaker open/half-open blocking",
    rate     |-> "rate limit hit",
    dup      |-> "duplicate order suppressed" ]

\* C7: every call evaluates the gates in the order error cooldown, circuit
\* breaker, rate limiter, duplicate suppression and stops at the first gate that
\* denies; a denied call returns a non-nil error (that gate's) and makes no call
\* of the underlying exchange's PlaceMarket; only a call that passed all four
\* gates reaches the exchange.
C7_GatesInOrderShortCircuit ==
  \A c \in Callers :
    /\ Len(gates[c]) <= Len(GateOrder)
    /\ gates[c] = SubSeq(GateOrder, 1, Len(gates[c]))
    /\ outcome[c] = "denied" =>
         /\ pc[c] = "done"
         /\ gates[c] # <<>>
         /\ ret[c] = GateError[gates[c][Len(gates[c])]]
         /\ ret[c] # "nil"
         /\ ncalls[c] = 0
    /\ (pc[c] \notin {"idle", "cooldown", "breaker", "rate", "dup"} /\ outcome[c] # "denied")
         => gates[c] = GateOrder
    /\ ncalls[c] > 0 => gates[c] = GateOrder /\ outcome[c] # "denied"

\* C7 witness: a call was denied by the last gate, after passing the three
\* before it.
C7_Witness ==
  \E c \in Callers :
    /\ pc[c] = "done"
    /\ outcome[c] = "denied"
    /\ ret[c] = "duplicate order suppressed"
    /\ gates[c] = GateOrder

\* C8: a call that passes all gates calls the underlying exchange at most
\* 1 + maxRetries times, makes no further attempt after the first successful
\* one, and makes exactly 1 + maxRetries attempts when every attempt fails.
C8_AttemptsBounded ==
  /\ [](\A c \in Callers :
          /\ ncalls[c] <= 1 + cfg.maxRetries
          /\ outcome[c] = "failed" => ncalls[c] = 1 + cfg.maxRetries
          /\ outcome[c] = "placed" => (ncalls[c] >= 1 /\ err[c] = "nil"))
  /\ [][\A c \in Callers :
          ExchangeCalled(c) => (ncalls[c] > 0 => err[c] # "nil")]_vars

\* C8 witness: a call failed after a first attempt and one retry.
C8_Witness ==
  \E c \in Callers :
    outcome[c] = "failed" /\ cfg.maxRetries = 1 /\ ncalls[c] = 2

\* C9, first part: canAct as a function of the time at which it is evaluated.
\* True while no error was ever noted; after noteError at time t false before
\* t + errorCooldown and true from then on.
C9_CanActByClock ==
  /\ LastErrorTime = ZeroTime => CanAct(clock)
  /\ LastErrorTime # ZeroTime =>
       (CanAct(clock) <=> clock >= LastErrorTime + cfg.ErrorCooldown)

\* A call that began at time n began inside the cooldown interval of the
\* last noted error.
BeganInCooldown(n) ==
  /\ LastErrorTime # ZeroTime
  /\ LastErrorTime <= n
  /\ n < LastErrorTime + cfg.ErrorCooldown

\* C9: canAct is true while no error has ever been noted; after noteError at
\* time t it is false at every time before t + errorCooldown and true from then
\* on, so every PlaceMarket call beginning inside that interval is denied by the
\* cooldown gate.
C9_CooldownDeniesCallsBegunInside ==
  /\ []C9_CanActByClock
  /\ [][\A c \in Callers :
          (pc[c] = "cooldown" /\ pc'[c] = "breaker") => ~BeganInCooldown(now[c])]_vars

\* ------------------------------------------------- sequential calls (SeqSpec)
\* The orders placed before the call of caller c (its own, if it was placed, is
\* the last entry of hist.succ).
PriorSucc(c) ==
  IF outcome[c] = "placed" THEN SubSeq(hist.succ, 1, Len(hist.succ) - 1) ELSE hist.succ

LastSucc(c) == PriorSucc(c)[Len(PriorSucc(c))]

\* C5 as stated: whenever a call with some triple succeeded and a later call with
\* the identical triple begins less than the dedup window after it, the later
\* call is denied (as a duplicate, when it gets as far as the duplicate gate) and
\* does not reach the exchange; a call with the same triple that begins once the
\* window has elapsed is not denied by the duplicate gate.
C5_AnyEarlierSuccessSuppresses ==
  \A c \in Callers :
    pc[c] = "done" =>
      LET same == { k \in DOMAIN PriorSucc(c) : PriorSucc(c)[k].triple = req[c] }
      IN /\ (\E k \in same : now[c] - PriorSucc(c)[k].at < cfg.dupWindow) =>
              /\ outcome[c] = "denied"
              /\ ncalls[c] = 0
              /\ gates[c] = GateOrder => ret[c] = GateError.dup
         /\ (same # {} /\ \A k \in same : now[c] - PriorSucc(c)[k].at >= cfg.dupWindow) =>
              ret[c] # GateError.dup

\* C5 amended: whenever the most recently placed order had the identical triple
\* and the later call begins less than the dedup window after it, the later call
\* is denied (by the duplicate gate if it gets that far) and does not reach the
\* exchange; a call that begins once the dedup window has elapsed since the most
\* recently placed order is not denied by the duplicate gate.
C5_LastSuccessSuppresses ==
  \A c \in Callers :
    (pc[c] = "done" /\ PriorSucc(c) # <<>>) =>
      /\ (LastSucc(c).triple = req[c] /\ now[c] - LastSucc(c).at < cfg.dupWindow) =>
           /\ outcome[c] = "denied"
           /\ ncalls[c] = 0
           /\ gates[c] = GateOrder => ret[c] = GateError.dup
      /\ now[c] - LastSucc(c).at >= cfg.dupWindow => ret[c] # GateError.dup

\* C5 witness: a call repeating the triple of the order placed last, inside the
\* window, was denied as a duplicate.
C5_Witness ==
  \E c \in Callers :
    /\ pc[c] = "done"
    /\ PriorSucc(c) # <<>>
    /\ LastSucc(c).triple = req[c]
    /\ now[c] - LastSucc(c).at < cfg.dupWindow
    /\ ret[c] = GateError.dup

\* The placed orders whose timestamps lie inside the minute that ends at n.
InTrailingMinute(c, n) ==
  Cardinality({ k \in DOMAIN PriorSucc(c) : PriorSucc(c)[k].at > n - OneMinute })

\* C6: with cap C > 0 a call that begins when C or more placed orders have
\* timestamps inside the trailing minute is denied with the rate-limit error and
\* does not reach the exchange; once fewer than C remain inside the trailing
\* minute the rate gate no longer denies; with C = 0 it never denies.
C6_RateGateSlidingWindow ==
  \A c \in Callers :
    pc[c] = "done" =>
      /\ (cfg.perMinuteCap > 0 /\ InTrailingMinute(c, now[c]) >= cfg.perMinuteCap) =>
           (ret[c] = GateError.rate /\ ncalls[c] = 0)
      /\ (cfg.perMinuteCap > 0 /\ InTrailingMinute(c, now[c]) < cfg.perMinuteCap) =>
           ret[c] # GateError.rate
      /\ cfg.perMinuteCap = 0 => ret[c] # GateError.rate

\* C6 witness: with a cap of 2, a call that began with two placed orders inside
\* the trailing minute was denied by the rate gate.
C6_Witness ==
  \E c \in Callers :
    /\ pc[c] = "done"
    /\ cfg.perMinuteCap = 2
    /\ InTrailingMinute(c, now[c]) = 2
    /\ ret[c] = GateError.rate

\* ------------------------------------------------- the kill switch (RiskSpec)
\* The loss reaches the limit, by exact arithmetic on the present equity values:
\* (equityAtOpen - equityNow) * 100 >= maxLossPct * equityAtOpen.
LossAtLeast(maxLossPct) ==
  (EquityAtOpenUSD - EquityNowUSD) * 100 >= maxLossPct * EquityAtOpenUSD

\* C10: breachDailyLoss(maxLossPct) is true iff equityAtOpen > 0 and
\* (equityAtOpen - equityNow) * 100 >= maxLossPct * equityAtOpen; for
\* equityAtOpen <= 0 it is false whatever equityNow is.
C10_BreachIffLossAtLeastLimit ==
  hist.breach # NoBreach =>
    (hist.breach.result <=>
       (EquityAtOpenUSD > 0 /\ LossAtLeast(hist.breach.maxLossPct)))

\* C10, the parts that hold: a breach is reported only when the loss has
\* reached the limit, never on a non-positive opening equity, and the two
\* literal cases (open 10000, limit 5: now 9400 breaches, now 9600 does not).
C10_BreachOnlyWhenLossAtLeastLimit ==
  hist.breach # NoBreach =>
    /\ hist.breach.result => (EquityAtOpenUSD > 0 /\ LossAtLeast(hist.breach.maxLossPct))
    /\ EquityAtOpenUSD <= 0 => ~hist.breach.result
    /\ (EquityAtOpenUSD = 10000 /\ hist.breach.maxLossPct = 5) =>
         /\ EquityNowUSD = 9400 => hist.breach.result
         /\ EquityNowUSD = 9600 => ~hist.breach.result

\* C10 witness: the limit was tested at a loss of exactly the limit.
C10_Witness ==
  /\ hist.breach # NoBreach
  /\ EquityAtOpenUSD = 100
  /\ EquityNowUSD = 71
  /\ hist.breach.maxLossPct = 29

\* ---------------------------------------- the rolling price window (PriceSpec)
\* The last n entries of a sequence (all of it when it is shorter).
LastN(seq, n) ==
  IF Len(seq) <= n THEN seq ELSE SubSeq(seq, Len(seq) - n + 1, Len(seq))

\* C11: after any sequence of pushPrice(px, lookback) and resetDay calls with a
\* fixed lookback, the price window is no longer than the lookback and equals
\* the last min(k, lookback) prices pushed since the most recent resetDay, in
\* arrival order.
C11_WindowHoldsLastPushes ==
  /\ Len(prices) <= VolLookback
  /\ prices = LastN(hist.pushed, VolLookback)

\* C11 witness: one price more was pushed than the window holds; the window
\* keeps the two newest, in arrival order.
C11_Witness ==
  /\ VolLookback = 2
  /\ Len(hist.pushed) = 3
  /\ prices = <<102, 103>>
  /\ hist.pushed = <<101, 102, 103>>

InitReturned == op.name = "idle" /\ op.last = "init"

\* The file read by InitAtStartup held a snapshot whose day-open parses and
\* lies on the local trading day of the call's now.
LoadedSnapshotOfToday ==
  LET loaded == LoadSnapshot(op.loaded)
      parsed == ParseDayOpenISO(loaded.snap.DayOpenISO)
  IN loaded.ok /\ parsed.ok /\ SameTradingDay(dm.TZ, parsed.t, op.now)

\* The risk state as the claim describes it after InitAtStartup.
StartupState ==
  /\ DayOpen = TodayOpen(dm.TZ, op.now)
  /\ IF LoadedSnapshotOfToday
     THEN /\ EquityAtOpenUSD = LoadSnapshot(op.loaded).snap.EquityAtOpenUSD
          /\ OrdersToday = LoadSnapshot(op.loaded).snap.OrdersToday
          /\ RealizedPnLUSD = LoadSnapshot(op.loaded).snap.RealizedPnLUSD
          /\ primary = op.loaded
     ELSE /\ EquityAtOpenUSD = op.equityNow
          /\ OrdersToday = 0
          /\ RealizedPnLUSD = 0

SeedFile == File(Marshal(SeedForToday(dm.TZ, op.now, op.equityNow)))

\* C13 as stated: after InitAtStartup the risk state holds the snapshot's values
\* when a snapshot of today was loaded, and otherwise equityAtOpen = equityNow,
\* zero orders and zero realized PnL with a fresh seed for today in the snapshot
\* file; dayOpen is today's local midnight in every case.
C13_StartupStateAndSeedWritten ==
  InitReturned => StartupState /\ (~LoadedSnapshotOfToday => primary = SeedFile)

\* C13: as above, where the seed is in the snapshot file unless saving it
\* failed, and then the file is as InitAtStartup found it.
C13_StartupStateSeedBestEffort ==
  InitReturned =>
    StartupState /\ (~LoadedSnapshotOfToday => primary = SeedFile \/ primary = op.loaded)

\* InitAtStartup found a snapshot of another day and replaced it by the seed.
C13_Witness ==
  /\ InitReturned
  /\ LoadSnapshot(op.loaded).ok
  /\ ParseDayOpenISO(LoadSnapshot(op.loaded).snap.DayOpenISO).ok
  /\ ~LoadedSnapshotOfToday
  /\ primary = SeedFile
  /\ EquityAtOpenUSD = op.equityNow
  /\ LoadSnapshot(op.loaded).snap.EquityAtOpenUSD # op.equityNow

\* One step of the day manager as the claim describes RolloverIfNeeded: a call
\* that returns at once, a call that goes on to save a seed, and the return of
\* such a call.
RolloverAsClaimed ==
  /\ (op.name = "idle" /\ op'.name = "idle" /\ op' # op) =>
       /\ op'.last = "rollover"
       /\ op'.ret = "false"
       /\ SameTradingDay(dm.TZ, DayOpen, op'.now)
       /\ UNCHANGED <<rvars, primary, bak>>
  /\ (op.name = "idle" /\ op'.name = "rollover") =>
       /\ ~SameTradingDay(dm.TZ, DayOpen, op'.now)
       /\ TodayOpen(dm.TZ, DayOpen) # TodayOpen(dm.TZ, op'.now)
  /\ (op.name = "rollover" /\ op'.name = "idle") =>
       /\ op'.ret = "true"
       /\ OrdersToday' = 0
       /\ RealizedPnLUSD' = 0
       /\ prices' = <<>>
       /\ EquityAtOpenUSD' = op.equityNow
       /\ DayOpen' = TodayOpen(dm.TZ, op.now)
       /\ SameTradingDay(dm.TZ, DayOpen', op.now)

C20_BakHoldsPreviousCopy ==
  (/\ save.pc = "done"
   /\ save.ret = "nil"
   /\ hist.savedOver.exists
   /\ hist.savedOver # File(save.data)) => bak = hist.savedOver

\* ------------------------------------------- concurrent callers, continued
\* C17: with a cap C > 0, of the orders the exchange accepted no more than C
\* come from calls that began within one minute of each other.
C17_AcceptedPerMinuteWithinCap ==
  cfg.perMinuteCap > 0 =>
    \A k \in DOMAIN hist.succ :
      Cardinality({ j \in DOMAIN hist.succ :
                      /\ hist.succ[j].at <= hist.succ[k].at
                      /\ hist.succ[k].at - hist.succ[j].at < OneMinute }) <= cfg.perMinuteCap

\* C18: whenever no PlaceMarket call is in progress,
\* attempted = placed + failed + suppressed.
C18_CountersBalance ==
  (\A c \in Callers : pc[c] \in {"idle", "done"}) =>
    metric.attempted = metric.placed + metric.failed + metric.suppressed

\* C19: a call that passed all gates returns nil iff one of its attempts at the
\* exchange succeeded, and a call that recorded a terminal failure returns a
\* non-nil error.
C19_NilIffAttemptSucceeded ==
  \A c \in Callers :
    (pc[c] = "done" /\ outcome[c] \in {"placed", "failed"}) =>
      /\ ret[c] = "nil" <=> (ncalls[c] > 0 /\ err[c] = "nil")
      /\ outcome[c] = "failed" => ret[c] # "nil"

\* C15: no caller holds rateMu or bMu while it sleeps for backoff or while its
\* call to the exchange is in flight, and no caller holds both at once; the
\* holder of a mutex is inside the critical section, about to release it.
C15_NoLockAcrossSleepOrExchange ==
  \A c \in Callers :
    /\ pc[c] \in {"attempt", "sleep"} => (rateMu # c /\ bMu # c)
    /\ ~(rateMu = c /\ bMu = c)
    /\ rateMu = c => pc[c] \in {"rate", "rateNote"}
    /\ bMu = c => pc[c] \in {"breaker", "breakerSuccess", "breakerFailure"}

\* One caller sleeps for backoff while the other holds the rate lock for its
\* gate check.
C15_Witness ==
  \E c, d \in Callers :
    /\ c # d
    /\ pc[c] = "sleep"
    /\ wake[c] > clock
    /\ pc[d] = "rate"
    /\ rateMu = d

\* C16: a caller about to read or write the dedup state holds a mutex, and two
\* calls with the identical triple that began at the same time, inside the
\* dedup window, are not both accepted by the exchange.
C16_DedupUnderMutex ==
  /\ \A c \in Callers : pc[c] \in {"dup", "dupNote"} => (rateMu = c \/ bMu = c)
  /\ cfg.dupWindow > 0 =>
       \A c, d \in Callers :
         ~(/\ c # d
           /\ req[c] # NoTriple
           /\ req[c] = req[d]
           /\ now[c] = now[d]
           /\ ncalls[c] > 0 /\ err[c] = "nil"
           /\ ncalls[d] > 0 /\ err[d] = "nil")

C21_BreakerClosesAgainWithAttempts ==
  (cfg.maxRetries >= 0 /\ bState # breakerClosed) ~> (bState = breakerClosed)


\* The orders placed through the safe exchange by calls begun at or after t.
OrdersPlacedSince(t) ==
  Cardinality({ k \in DOMAIN hist.succ : hist.succ[k].at >= t })

\* The orders placed by calls begun on the trading day of instant t.
OrdersPlacedOnDayOf(t) ==
  Cardinality({ k \in DOMAIN hist.succ : SameTradingDay(dm.TZ, hist.succ[k].at, t) })

\* C22: in the driver loop the orders placed through the safe exchange within
\* one trading day never exceed Limits.MaxOrdersPerDay, and when the loop is
\* about to ask the decision engine, ordersToday is the number of orders placed
\* since the day's open.
C22_DailyOrderCapEnforced ==
  /\ \A k \in DOMAIN hist.succ :
       OrdersPlacedOnDayOf(hist.succ[k].at) <= lim.MaxOrdersPerDay
  /\ (op.name = "idle" /\ op.last = "persist" /\ pc["c1"] = "idle")
       => OrdersToday = OrdersPlacedSince(DayOpen)


\* PersistProgress has written its snapshot: SaveSnapshot returned nil and
\* PersistProgress has not returned yet.
ProgressWritten == op.name = "persist" /\ save.pc = "done" /\ save.ret = "nil"

\* C23: the snapshot PersistProgress has written carries the risk state's
\* anchored day-open together with its equity at open, order count and realized
\* P&L, and while PersistProgress runs, whether the write fails or not, the risk
\* state stays as the call found it.
C23_ProgressCarriesAnchoredDayOpen ==
  /\ ProgressWritten =>
       LoadSnapshot(primary) =
         [ok |-> TRUE,
          snap |-> DaySnapshot(FormatRFC3339(DayOpen), dm.TZ, EquityAtOpenUSD,
                               OrdersToday, RealizedPnLUSD)]
  /\ op.name = "persist" =>
       /\ EquityAtOpenUSD = op.snap.EquityAtOpenUSD
       /\ OrdersToday = op.snap.OrdersToday
       /\ RealizedPnLUSD = op.snap.RealizedPnLUSD

============================================================================
